---------------------------- MODULE Spec2Model ----------------------------
(***************************************************************************)
(* Process state synchronisation and control dispatch of the process      *)
(* panel: the useProcesses hook (ui/src/hooks/useProcesses.ts) and the    *)
(* ProcessPanel component that drives it.                                 *)
(*                                                                         *)
(* The hook keeps two slots, the push slot wsProcesses (React state) and  *)
(* the poll slot (the data of the 'processes' query), and four mutations  *)
(* (kill, killAll, pause, resume).  Every handler of the hook and of the  *)
(* panel is one action.  The query and the mutations are the ones of the  *)
(* query library the hook calls: their state is modelled as far as the    *)
(* hook reads it (data, error, status, fetchStatus, isInvalidated of the  *)
(* query; the mutation each mutation observer is currently attached to).  *)
(***************************************************************************)
EXTENDS Integers, Sequences, FiniteSets, Bags, TLC

VARIABLES
    wsProcesses,         \* useState<ProjectProcesses[] | null>(null)
    query,               \* state of useQuery(['processes'])
    mutations,           \* bag of the mutations whose transport call is in flight
    called,              \* transport call started by the last step
    settled,             \* completion handed to the caller of an action by the last step
    lastPush,            \* history: snapshot of the last push message applied
    lastPoll,            \* history: snapshot of the last successful fetch
    isOpen,              \* ProcessPanel prop isOpen
    showKillAllConfirm   \* ProcessPanel state showKillAllConfirm

vars == <<wsProcesses, query, mutations, called, settled, lastPush, lastPoll,
          isOpen, showKillAllConfirm>>
panelVars == <<isOpen, showKillAllConfirm>>

---------------------------------------------------------------------------
(* Bounds *)

\* Largest number of mutations whose transport call is in flight at once.
MaxInFlight == 2

\* The same in the runs checked for liveness (LiveSpec).
MaxLiveInFlight == 1

\* The same in the runs of the panel that look at single intents
\* (PanelIntentSpec).
MaxPanelInFlight == 1

---------------------------------------------------------------------------
(* Values.  A slot is null, undefined or a snapshot; all three are records *)
(* of one shape so that they can be compared.                              *)

Null == [tag |-> "null", val |-> <<>>]
Undefined == [tag |-> "undefined", val |-> <<>>]
Some(s) == [tag |-> "value", val |-> s]

\* a ?? b
Coalesce(a, b) == IF a.tag = "value" THEN a ELSE b

\* ProcessInfo
Node(pid, status, children) ==
    [pid |-> pid, name |-> "agent", status |-> status, children |-> children]

\* ProjectProcesses
Project(name, roots, n) ==
    [project_name |-> name, processes |-> roots, total_count |-> n]

Pids == {1, 2}

SnapEmpty == <<>>
SnapRunning ==
    <<Project("demo", <<Node(1, "running", <<Node(2, "running", <<>>)>>)>>, 2)>>
SnapPaused ==
    <<Project("demo", <<Node(1, "paused", <<Node(2, "running", <<>>)>>)>>, 2)>>
SnapTwo ==
    <<Project("demo", <<Node(1, "stopped", <<>>)>>, 1),
      Project("other", <<Node(2, "paused", <<>>)>>, 1)>>

\* The snapshots the backend answers a list() with or pushes.
Snapshots == {SnapEmpty, SnapRunning, SnapPaused, SnapTwo}

\* WSProcessUpdateMessage: well formed, or with the processes field missing.
Messages ==
    {[type |-> "process_update", processes |-> Some(s)] : s \in Snapshots}
    \cup {[type |-> "process_update", processes |-> Undefined]}

WellFormed(message) == message.processes.tag = "value"

\* force?: boolean
ForceArgs == {"undefined", "true"}

NoPid == 0
Kinds == {"kill", "killAll", "pause", "resume"}

\* A command: its kind and the pid it is about (NoPid for killAll).
Cmd(kind, pid) == [kind |-> kind, pid |-> pid]

\* api.killProcess(pid, force), api.killAllProcesses(force),
\* api.pauseProcess(pid), api.resumeProcess(pid)
Call(kind, pid, force) == [op |-> kind, pid |-> pid, force |-> force]

NoCall == Call("none", NoPid, "undefined")

NoCompletion ==
    [cmd |-> Cmd("none", NoPid), transport |-> "none", promise |-> "none",
     refetching |-> FALSE]

---------------------------------------------------------------------------
(* The hook's derived values (useProcesses.ts 50-54, 124-136)              *)

apiProcesses == query.data
error == query.error

\* isLoading of the query: no data yet and a fetch running.
isLoading == query.status = "pending" /\ query.fetchStatus = "fetching"

\* Mutant of CurrentView: the poll slot is preferred to the push slot.
CurrentViewPollFirst(ws, api) == Coalesce(api, Coalesce(ws, Some(<<>>))).val

\* Mutant of CurrentView: the poll slot is never read.
CurrentViewPushOnly(ws, api) == Coalesce(ws, Some(<<>>)).val

\* wsProcesses ?? apiProcesses ?? []
CurrentView(ws, api) == Coalesce(ws, Coalesce(api, Some(<<>>))).val

processes == CurrentView(wsProcesses, apiProcesses)

\* Mutant of SumTotalCount: the projects are counted, not their total_count.
SumTotalCountProjects(ps) == Len(ps)

RECURSIVE SumTotalCount(_)
SumTotalCount(ps) ==
    IF ps = <<>> THEN 0 ELSE Head(ps).total_count + SumTotalCount(Tail(ps))

\* processes.reduce((sum, p) => sum + p.total_count, 0)
processCount == SumTotalCount(processes)

\* isPending of a mutation observer: the mutation it is attached to (the one
\* of its latest mutate call) is still pending.
IsPending(kind) == \E m \in BagToSet(mutations) : m.kind = kind /\ m.observed

isKilling == IsPending("kill")
isKillingAll == IsPending("killAll")

---------------------------------------------------------------------------
(* The 'processes' query                                                   *)

QueryInit ==
    [data |-> Undefined, error |-> "null", status |-> "pending",
     fetchStatus |-> "fetching", isInvalidated |-> FALSE]

\* A fetch starts: with no data yet the query goes back to pending and
\* drops its error; with data it keeps both while it refetches.
StartFetch(q) ==
    IF q.data.tag = "value"
    THEN [q EXCEPT !.fetchStatus = "fetching"]
    ELSE [q EXCEPT !.fetchStatus = "fetching", !.status = "pending", !.error = "null"]

\* Mutant of InvalidateQueries: a fetch already running is cancelled and not
\* replaced.
InvalidateQueriesCancelOnly(q) ==
    IF q.fetchStatus = "fetching"
    THEN [q EXCEPT !.isInvalidated = TRUE, !.fetchStatus = "idle"]
    ELSE StartFetch([q EXCEPT !.isInvalidated = TRUE])

\* queryClient.invalidateQueries({ queryKey: ['processes'] }): the query is
\* marked invalidated and, being observed by the mounted hook, refetched; a
\* fetch already running is replaced by a new one (or, before the first
\* data, kept), so one fetch is running afterwards.
InvalidateQueries(q) ==
    IF q.fetchStatus = "fetching"
    THEN [q EXCEPT !.isInvalidated = TRUE]
    ELSE StartFetch([q EXCEPT !.isInvalidated = TRUE])

\* queryFn resolved with snapshot s.
FetchSucceeded(q, s) ==
    [data |-> Some(s), error |-> "null", status |-> "success",
     fetchStatus |-> "idle", isInvalidated |-> FALSE]

\* Mutant of FetchFailed: a failed fetch drops the data it had.
FetchFailedBlank(q) ==
    [q EXCEPT !.data = Undefined, !.error = "Error", !.status = "error",
              !.fetchStatus = "idle"]

\* queryFn rejected (retries exhausted): the data is kept.
FetchFailed(q) ==
    [q EXCEPT !.error = "Error", !.status = "error", !.fetchStatus = "idle"]

---------------------------------------------------------------------------
Init ==
    /\ wsProcesses = Null
    /\ query = QueryInit
    /\ mutations = EmptyBag
    /\ called = NoCall
    /\ settled = NoCompletion
    /\ lastPush = Null
    /\ lastPoll = Undefined
    /\ isOpen = FALSE
    /\ showKillAllConfirm = FALSE

\* handleProcessUpdate(message)
HandleProcessUpdate(message) ==
    /\ wsProcesses' = message.processes
    /\ lastPush' = IF WellFormed(message) THEN message.processes ELSE lastPush
    /\ called' = NoCall
    /\ settled' = NoCompletion
    /\ UNCHANGED <<query, mutations, lastPoll, panelVars>>

\* refetchInterval: 10000 fires; a fetch already running is not doubled.
RefetchInterval ==
    /\ query.fetchStatus = "idle"
    /\ query' = StartFetch(query)
    /\ called' = NoCall
    /\ settled' = NoCompletion
    /\ UNCHANGED <<wsProcesses, mutations, lastPush, lastPoll, panelVars>>

\* Mutant of QuerySuccess: a poll result takes the push slot's place.
QuerySuccessResetsPush(s) ==
    /\ query.fetchStatus = "fetching"
    /\ query' = FetchSucceeded(query, s)
    /\ lastPoll' = Some(s)
    /\ wsProcesses' = Null
    /\ called' = NoCall
    /\ settled' = NoCompletion
    /\ UNCHANGED <<mutations, lastPush, panelVars>>

\* api.listAllProcesses resolved with snapshot s.
QuerySuccess(s) ==
    /\ query.fetchStatus = "fetching"
    /\ query' = FetchSucceeded(query, s)
    /\ lastPoll' = Some(s)
    /\ called' = NoCall
    /\ settled' = NoCompletion
    /\ UNCHANGED <<wsProcesses, mutations, lastPush, panelVars>>

\* api.listAllProcesses rejected.
QueryError ==
    /\ query.fetchStatus = "fetching"
    /\ query' = FetchFailed(query)
    /\ called' = NoCall
    /\ settled' = NoCompletion
    /\ UNCHANGED <<wsProcesses, mutations, lastPush, lastPoll, panelVars>>

---------------------------------------------------------------------------
(* The four mutations (useProcesses.ts 61-122)                             *)

\* A mutation in flight; observed: its observer is still attached to it.
\* (The force flag is handed to the transport when the call starts, see
\* called, and nothing reads it afterwards.)
Entry(cmd, observed) ==
    [kind |-> cmd.kind, pid |-> cmd.pid, observed |-> observed]

CmdOf(m) == Cmd(m.kind, m.pid)

InFlight == BagToSet(mutations)

\* Number of in-flight mutations of a kind / of a kind and pid.
Count(kind) ==
    BagCardinality([m \in {x \in InFlight : x.kind = kind} |-> mutations[m]])
CountPid(kind, pid) ==
    BagCardinality(
        [m \in {x \in InFlight : x.kind = kind /\ x.pid = pid} |-> mutations[m]])

\* The observer of a kind leaves the mutation it is attached to.
Detach(kind, B) ==
    LET obs == {m \in BagToSet(B) : m.kind = kind /\ m.observed}
    IN  (B (-) SetToBag(obs)) (+) SetToBag({[m EXCEPT !.observed = FALSE] : m \in obs})

\* Mutant of MutateAsync: a call is accepted only once the previous ones
\* have resolved.
MutateAsyncSerial(kind, pid, force) ==
    /\ mutations = EmptyBag
    /\ mutations' = SetToBag({Entry(Cmd(kind, pid), TRUE)})
    /\ called' = Call(kind, pid, force)
    /\ settled' = NoCompletion
    /\ UNCHANGED <<wsProcesses, query, lastPush, lastPoll>>

\* Mutant of MutateAsync: a kill-all clears the push slot when it is issued.
MutateAsyncOptimistic(kind, pid, force) ==
    /\ BagCardinality(mutations) < MaxInFlight
    /\ mutations' = Detach(kind, mutations) (+) SetToBag({Entry(Cmd(kind, pid), TRUE)})
    /\ called' = Call(kind, pid, force)
    /\ settled' = NoCompletion
    /\ wsProcesses' = IF kind = "killAll" THEN Some(<<>>) ELSE wsProcesses
    /\ UNCHANGED <<query, lastPush, lastPoll>>

\* xMutation.mutateAsync(variables): the observer builds a new mutation,
\* attaches to it in place of its previous one, and the mutationFn (the
\* transport call) starts at once.
MutateAsync(kind, pid, force) ==
    /\ BagCardinality(mutations) < MaxInFlight
    /\ mutations' = Detach(kind, mutations) (+) SetToBag({Entry(Cmd(kind, pid), TRUE)})
    /\ called' = Call(kind, pid, force)
    /\ settled' = NoCompletion
    /\ UNCHANGED <<wsProcesses, query, lastPush, lastPoll>>

\* killProcess(pid, force)
KillProcess(pid, force) == MutateAsync("kill", pid, force) /\ UNCHANGED panelVars

\* killAllProcesses(force)
KillAllProcesses(force) == MutateAsync("killAll", NoPid, force) /\ UNCHANGED panelVars

\* pauseProcess(pid)
PauseProcess(pid) == MutateAsync("pause", pid, "undefined") /\ UNCHANGED panelVars

\* resumeProcess(pid)
ResumeProcess(pid) == MutateAsync("resume", pid, "undefined") /\ UNCHANGED panelVars

\* Mutant of Completion: the action wrapper swallows the rejection.
CompletionSwallowed(m, answer) ==
    [cmd |-> CmdOf(m), transport |-> answer, promise |-> "resolved",
     refetching |-> query.fetchStatus = "fetching"]

\* What the caller of the action gets: `await xMutation.mutateAsync(...)`
\* resolves when the transport call resolved and rethrows when it rejected.
\* (refetching: a fetch of the query was running when the call settled.)
Completion(m, answer) ==
    [cmd |-> CmdOf(m), transport |-> answer,
     promise |-> IF answer = "ok" THEN "resolved" ELSE "rejected",
     refetching |-> query.fetchStatus = "fetching"]

\* Mutant of OnSuccessWs: the success of any command clears the push slot.
OnSuccessWsAnyKind(kind, ws) == Some(<<>>)

\* Mutant of OnSuccessWs: killAll does not clear the push slot.
OnSuccessWsNoClear(kind, ws) == ws

\* onSuccess of a mutation, on the push slot: only killAll clears it.
OnSuccessWs(kind, ws) == IF kind = "killAll" THEN Some(<<>>) ELSE ws

\* Mutant of OnSuccessQuery: pause and resume do not invalidate.
OnSuccessQueryKillOnly(kind, q) ==
    IF kind \in {"kill", "killAll"} THEN InvalidateQueries(q) ELSE q

\* onSuccess of a mutation, on the query: all four invalidate it.
OnSuccessQuery(kind, q) == InvalidateQueries(q)

\* Mutant of Rejected: a failure fails every in-flight mutation of its kind.
RejectedAllOfKind(m) ==
    [x \in {y \in BagToSet(mutations) : y.kind = m.kind} |-> mutations[x]]

\* The mutations that leave the in-flight bag when m's transport call fails.
Rejected(m) == SetToBag({m})

\* Mutant of OnErrorWs: killAll clears the push slot whatever the outcome.
OnErrorWsClear(kind, ws) == IF kind = "killAll" THEN Some(<<>>) ELSE ws

\* Effect of a failed mutation on the push slot: none (no onError, no
\* onSettled; the clear of killAll is in onSuccess only).
OnErrorWs(kind, ws) == ws

\* The transport call of in-flight mutation m resolved.
MutationSuccess(m) ==
    /\ m \in InFlight
    /\ mutations' = mutations (-) SetToBag({m})
    /\ query' = OnSuccessQuery(m.kind, query)
    /\ wsProcesses' = OnSuccessWs(m.kind, wsProcesses)
    /\ called' = NoCall
    /\ settled' = Completion(m, "ok")
    /\ UNCHANGED <<lastPush, lastPoll, panelVars>>

\* The transport call of in-flight mutation m rejected (no onError is set).
MutationError(m) ==
    /\ m \in InFlight
    /\ mutations' = mutations (-) Rejected(m)
    /\ wsProcesses' = OnErrorWs(m.kind, wsProcesses)
    /\ called' = NoCall
    /\ settled' = Completion(m, "fail")
    /\ UNCHANGED <<query, lastPush, lastPoll, panelVars>>

\* Every shape a mutation in flight can have.
Entries ==
    {Entry(Cmd(k, p), o) : k \in Kinds \ {"killAll"}, p \in Pids, o \in BOOLEAN}
    \cup {Entry(Cmd("killAll", NoPid), o) : o \in BOOLEAN}

---------------------------------------------------------------------------
(* The hook driven by any caller                                           *)

Next ==
    \/ \E message \in Messages : HandleProcessUpdate(message)
    \/ RefetchInterval
    \/ \E s \in Snapshots : QuerySuccess(s)
    \/ QueryError
    \/ \E pid \in Pids, force \in ForceArgs : KillProcess(pid, force)
    \/ \E force \in ForceArgs : KillAllProcesses(force)
    \/ \E pid \in Pids : PauseProcess(pid)
    \/ \E pid \in Pids : ResumeProcess(pid)
    \/ \E m \in Entries : MutationSuccess(m)
    \/ \E m \in Entries : MutationError(m)

Spec == Init /\ [][Next]_vars

\* The same, with the scheduling the claim about refetching assumes: the
\* interval timer keeps firing and the transport, asked again and again,
\* eventually answers a list() with a snapshot.
LiveRoom == BagCardinality(mutations) < MaxLiveInFlight

LiveNext ==
    \/ \E message \in Messages : HandleProcessUpdate(message)
    \/ RefetchInterval
    \/ \E s \in Snapshots : QuerySuccess(s)
    \/ QueryError
    \/ \E pid \in Pids, force \in ForceArgs : LiveRoom /\ KillProcess(pid, force)
    \/ \E force \in ForceArgs : LiveRoom /\ KillAllProcesses(force)
    \/ \E pid \in Pids : LiveRoom /\ PauseProcess(pid)
    \/ \E pid \in Pids : LiveRoom /\ ResumeProcess(pid)
    \/ \E m \in Entries : MutationSuccess(m)
    \/ \E m \in Entries : MutationError(m)

LiveSpec ==
    /\ Init /\ [][LiveNext]_vars
    /\ WF_vars(RefetchInterval)
    /\ SF_vars(\E s \in Snapshots : QuerySuccess(s))

\* The safety part of LiveSpec: every operation of the hook, with the
\* smaller cap on the requests in flight.
LiveSafetySpec == Init /\ [][LiveNext]_vars

TypeOK ==
    /\ wsProcesses \in {Null, Undefined} \cup {Some(s) : s \in Snapshots}
    /\ query.data \in {Undefined} \cup {Some(s) : s \in Snapshots}
    /\ query.fetchStatus \in {"idle", "fetching"}
    /\ query.status \in {"pending", "error", "success"}
    /\ BagToSet(mutations) \subseteq Entries
    /\ BagCardinality(mutations) <= MaxInFlight

---------------------------------------------------------------------------
(* Pushes, polls and single-process commands only: no kill-all and no     *)
(* malformed message.                                                      *)

SyncNext ==
    \/ \E message \in {x \in Messages : WellFormed(x)} : HandleProcessUpdate(message)
    \/ RefetchInterval
    \/ \E s \in Snapshots : QuerySuccess(s)
    \/ QueryError
    \/ \E pid \in Pids, force \in ForceArgs : KillProcess(pid, force)
    \/ \E pid \in Pids : PauseProcess(pid)
    \/ \E pid \in Pids : ResumeProcess(pid)
    \/ \E m \in Entries : MutationSuccess(m)
    \/ \E m \in Entries : MutationError(m)

SpecSync == Init /\ [][SyncNext]_vars

---------------------------------------------------------------------------
(* The panel (ProcessPanel, ProcessRow) driving the hook                   *)

RECURSIVE Flatten(_)
\* The rows ProcessRow renders for a sequence of nodes, children included.
Flatten(nodes) ==
    IF nodes = <<>> THEN {}
    ELSE {[pid |-> Head(nodes).pid, status |-> Head(nodes).status]}
         \cup Flatten(Head(nodes).children) \cup Flatten(Tail(nodes))

RECURSIVE Rows(_)
\* The rows of all project groups of the displayed view.
Rows(ps) ==
    IF ps = <<>> THEN {} ELSE Flatten(Head(ps).processes) \cup Rows(Tail(ps))

\* The props the panel is rendered with are the hook's return values.
panelProcesses == processes
panelProcessCount == processCount
panelIsKillingAll == isKillingAll

\* onToggle (header click)
OnToggle ==
    /\ isOpen' = ~isOpen
    /\ called' = NoCall
    /\ settled' = NoCompletion
    /\ UNCHANGED <<wsProcesses, query, mutations, lastPush, lastPoll, showKillAllConfirm>>

\* Kill All button: rendered when isOpen && processCount > 0, disabled
\* while isKillingAll.
ClickKillAll ==
    /\ isOpen
    /\ panelProcessCount > 0
    /\ ~panelIsKillingAll
    /\ showKillAllConfirm' = TRUE
    /\ called' = NoCall
    /\ settled' = NoCompletion
    /\ UNCHANGED <<wsProcesses, query, mutations, lastPush, lastPoll, isOpen>>

\* Cancel button of the confirmation modal
CancelKillAll ==
    /\ showKillAllConfirm
    /\ showKillAllConfirm' = FALSE
    /\ called' = NoCall
    /\ settled' = NoCompletion
    /\ UNCHANGED <<wsProcesses, query, mutations, lastPush, lastPoll, isOpen>>

\* handleKillAll: "Kill All Processes" button of the confirmation modal
HandleKillAll ==
    /\ showKillAllConfirm
    /\ showKillAllConfirm' = FALSE
    /\ MutateAsync("killAll", NoPid, "true")
    /\ UNCHANGED isOpen

\* ProcessRow: kill button, rendered for every row
ClickKill(pid) ==
    /\ isOpen
    /\ \E r \in Rows(panelProcesses) : r.pid = pid
    /\ MutateAsync("kill", pid, "undefined")
    /\ UNCHANGED panelVars

\* Mutant of ClickPause: the pause button is rendered for every row.
ClickPauseAnyStatus(pid) ==
    /\ isOpen
    /\ \E r \in Rows(panelProcesses) : r.pid = pid
    /\ MutateAsync("pause", pid, "undefined")
    /\ UNCHANGED panelVars

\* ProcessRow: pause button, rendered when process.status === 'running'
ClickPause(pid) ==
    /\ isOpen
    /\ \E r \in Rows(panelProcesses) : r.pid = pid /\ r.status = "running"
    /\ MutateAsync("pause", pid, "undefined")
    /\ UNCHANGED panelVars

\* ProcessRow: resume button, rendered when process.status === 'paused'
ClickResume(pid) ==
    /\ isOpen
    /\ \E r \in Rows(panelProcesses) : r.pid = pid /\ r.status = "paused"
    /\ MutateAsync("resume", pid, "undefined")
    /\ UNCHANGED panelVars

PanelNext ==
    \/ \E message \in Messages : HandleProcessUpdate(message)
    \/ RefetchInterval
    \/ \E s \in Snapshots : QuerySuccess(s)
    \/ QueryError
    \/ \E m \in Entries : MutationSuccess(m)
    \/ \E m \in Entries : MutationError(m)
    \/ OnToggle
    \/ ClickKillAll
    \/ CancelKillAll
    \/ HandleKillAll
    \/ \E pid \in Pids : ClickKill(pid)
    \/ \E pid \in Pids : ClickPause(pid)
    \/ \E pid \in Pids : ClickResume(pid)

PanelSpec == Init /\ [][PanelNext]_vars

\* The panel with a smaller cap on the requests in flight, for what does
\* not depend on how many requests overlap.
PanelRoom == BagCardinality(mutations) < MaxPanelInFlight

PanelIntentNext ==
    \/ \E message \in Messages : HandleProcessUpdate(message)
    \/ RefetchInterval
    \/ \E s \in Snapshots : QuerySuccess(s)
    \/ QueryError
    \/ \E m \in Entries : MutationSuccess(m)
    \/ \E m \in Entries : MutationError(m)
    \/ OnToggle
    \/ ClickKillAll
    \/ CancelKillAll
    \/ PanelRoom /\ HandleKillAll
    \/ \E pid \in Pids : PanelRoom /\ ClickKill(pid)
    \/ \E pid \in Pids : PanelRoom /\ ClickPause(pid)
    \/ \E pid \in Pids : PanelRoom /\ ClickResume(pid)

PanelIntentSpec == Init /\ [][PanelIntentNext]_vars

---------------------------------------------------------------------------
(* Properties                                                              *)

\* The last step was the settlement of a command of one of the kinds.
Succeeded(kinds) == settled.transport = "ok" /\ settled.cmd.kind \in kinds
Failed(kinds) == settled.transport = "fail" /\ settled.cmd.kind \in kinds

\* C1: under pushes, polls and single-process commands, the exposed view is
\* the last push snapshot applied if there is one, else the last poll
\* snapshot applied if there is one, else the empty sequence; so a poll
\* applied after a push does not change the view.
C1_PushWins ==
    processes = IF lastPush.tag = "value" THEN lastPush.val
                ELSE IF lastPoll.tag = "value" THEN lastPoll.val
                ELSE <<>>

\* C1 witness: a push and a different poll have both been applied and the
\* view shows the push.
C1_Witness ==
    /\ lastPush.tag = "value"
    /\ lastPoll.tag = "value"
    /\ lastPoll.val # lastPush.val
    /\ lastPush.val # <<>>
    /\ processes = lastPush.val

\* C2: in the state a successful kill-all leaves, before any other step,
\* the exposed view is the empty sequence.
C2_KillAllClears == Succeeded({"killAll"}) => processes = <<>>

\* C2 witness: kill-all has just succeeded although the last push and the
\* poll slot both hold processes.
C2_Witness ==
    /\ Succeeded({"killAll"})
    /\ lastPush.tag = "value" /\ lastPush.val # <<>>
    /\ apiProcesses.tag = "value" /\ apiProcesses.val # <<>>

\* C3: neither issuing a kill-all nor its failure changes the push slot, the
\* poll slot or the exposed view, and the failure rejects the caller's
\* promise.
C3_KillAllFailure ==
    [][/\ called'.op = "killAll" =>
            /\ wsProcesses' = wsProcesses
            /\ apiProcesses' = apiProcesses
            /\ processes' = processes
       /\ Failed({"killAll"})' =>
            /\ wsProcesses' = wsProcesses
            /\ apiProcesses' = apiProcesses
            /\ processes' = processes
            /\ settled'.promise = "rejected"]_vars

\* C3 witness: a kill-all has just failed while the view shows processes.
C3_Witness == Failed({"killAll"}) /\ processes # <<>> /\ settled.promise = "rejected"

\* C4: a failed kill, pause or resume requests no invalidation, leaves the
\* query, the push slot and the exposed view as they were, and rejects the
\* promise of the caller of that action.
C4_CommandFailure ==
    [][Failed({"kill", "pause", "resume"})' =>
            /\ query' = query
            /\ wsProcesses' = wsProcesses
            /\ processes' = processes
            /\ settled'.promise = "rejected"]_vars

\* C4 witness: a pause has just failed and no fetch was started.
C4_Witness ==
    /\ Failed({"pause"})
    /\ query.fetchStatus = "idle"
    /\ ~query.isInvalidated
    /\ settled.promise = "rejected"

\* C5: in the state the success of any of the four commands leaves, the
\* 'processes' query is invalidated and a fetch of it is running (it does
\* not wait for the interval timer); and, the transport answering, a fetch
\* result is eventually applied to the poll slot, which is what clears the
\* invalidation.
C5_InvalidateOnSuccess ==
    /\ [](Succeeded(Kinds) => query.isInvalidated /\ query.fetchStatus = "fetching")
    /\ (Succeeded(Kinds) ~> ~query.isInvalidated)

\* C5 witness: a resume has just succeeded and the refetch it asked for is
\* running over an earlier poll result.
C5_Witness ==
    /\ Succeeded({"resume"})
    /\ query.isInvalidated
    /\ query.fetchStatus = "fetching"
    /\ apiProcesses.tag = "value"

\* The step applies a fetch result to the poll slot.
PollApplied ==
    /\ query.fetchStatus = "fetching"
    /\ query'.fetchStatus = "idle"
    /\ query'.status = "success"

\* The step ends a fetch with a failure.
PollFailed ==
    /\ query.fetchStatus = "fetching"
    /\ query'.fetchStatus = "idle"
    /\ query'.status = "error"

C7_FlagsTrackInFlight ==
    /\ isKillingAll <=> Count("killAll") > 0
    /\ isKilling <=> Count("kill") > 0

\* C8: through the panel, never two kill-all requests in flight at once and
\* never two kill requests for the same pid in flight at once.
C8_NoDuplicateInFlight ==
    /\ Count("killAll") <= 1
    /\ \A pid \in Pids : CountPid("kill", pid) <= 1

\* C9: the settlement of a kill takes exactly that one mutation out of the
\* in-flight bag, every other one staying in flight, and hands its caller
\* the outcome of its own transport call: resolved for ok, rejected for fail.
C9_IndependentKills ==
    [][settled'.cmd.kind = "kill" =>
        /\ \E o \in BOOLEAN :
            /\ BagIn(Entry(settled'.cmd, o), mutations)
            /\ mutations' = mutations (-) SetToBag({Entry(settled'.cmd, o)})
        /\ settled'.promise =
            (IF settled'.transport = "ok" THEN "resolved" ELSE "rejected")]_vars

\* C9 witness: a kill has just failed while the kill of another pid is
\* still in flight.
C9_Witness ==
    /\ Failed({"kill"})
    /\ settled.promise = "rejected"
    /\ \E m \in InFlight : m.kind = "kill" /\ m.pid # settled.cmd.pid

\* C10: a failed fetch leaves the poll slot and the exposed view as they
\* were and sets the error field.
C10_FetchFailureKeepsData ==
    [][PollFailed =>
        /\ apiProcesses' = apiProcesses
        /\ processes' = processes
        /\ error' = "Error"]_vars

\* C10 witness: the error is set while the view still shows the processes
\* of the last successful fetch.
C10_Witness ==
    /\ error = "Error"
    /\ query.status = "error"
    /\ wsProcesses = Null
    /\ apiProcesses.tag = "value"
    /\ processes = lastPoll.val
    /\ processes # <<>>

\* C11: a push message whose processes field is missing is a no-op: the
\* exposed view and processCount after handleProcessUpdate are what they
\* were before the message (the claim says the same of the push slot, which
\* the handler overwrites with the missing field).
C11_MalformedPushIsNoOp ==
    [][(\E message \in Messages :
            ~WellFormed(message) /\ HandleProcessUpdate(message))
        => /\ processes' = processes
           /\ processCount' = processCount]_vars

---------------------------------------------------------------------------
(* A session in which the push channel never delivers a message            *)

\* Next without handleProcessUpdate: polls and commands only.
PollOnlyNext ==
    \/ RefetchInterval
    \/ \E s \in Snapshots : QuerySuccess(s)
    \/ QueryError
    \/ \E pid \in Pids, force \in ForceArgs : KillProcess(pid, force)
    \/ \E force \in ForceArgs : KillAllProcesses(force)
    \/ \E pid \in Pids : PauseProcess(pid)
    \/ \E pid \in Pids : ResumeProcess(pid)
    \/ \E m \in Entries : MutationSuccess(m)
    \/ \E m \in Entries : MutationError(m)

PollOnlySpec == Init /\ [][PollOnlyNext]_vars

\* C12: when the push channel never delivers a message, every successfully
\* fetched poll snapshot becomes the exposed view, after any sequence of
\* polls and commands, a successful kill-all included.
C12_PollingKeepsWorking ==
    [][PollApplied => processes' = lastPoll'.val]_vars

\* C13: in every reachable state processCount is the sum of total_count over
\* the projects of the exposed view (the push slot's snapshot if it holds
\* one, else the poll slot's, else none), 0 for the empty view; the
\* snapshots being well formed, that is the number of process nodes of the
\* view, descendants included.
C13_CountIsSum ==
    LET view == IF wsProcesses.tag = "value" THEN wsProcesses.val
                ELSE IF apiProcesses.tag = "value" THEN apiProcesses.val
                ELSE <<>>
        total[i \in 0..Len(view)] ==
            IF i = 0 THEN 0 ELSE total[i - 1] + view[i].total_count
    IN  /\ processCount = total[Len(view)]
        /\ processCount = Cardinality(Rows(view))
        /\ view = <<>> => processCount = 0

\* C13 witness: a command has just failed while the view is a poll result
\* of one project with two processes.
C13_Witness ==
    /\ Failed(Kinds)
    /\ wsProcesses.tag # "value"
    /\ Len(processes) = 1
    /\ processCount = 2

\* C14: while no snapshot has been received from either source the store
\* reports the loading state, and while the exposed view is a received
\* empty snapshot it reports the non-loading empty state, so the two
\* situations never give the same (processes, isLoading).
C14_LoadingVsEmpty ==
    /\ (lastPush.tag # "value" /\ lastPoll.tag # "value") => isLoading
    /\ (\/ wsProcesses = Some(<<>>) /\ lastPush = Some(<<>>)
        \/ wsProcesses.tag # "value" /\ apiProcesses = Some(<<>>))
            => (processes = <<>> /\ ~isLoading)

\* C15: no command blocks another: whatever requests are in flight (below
\* the modelled cap), killProcess, killAllProcesses, pauseProcess and
\* resumeProcess can each be issued for any pid, and a request just issued
\* is already with the transport, next to the ones still unresolved.
C15_NoCommandBlocks ==
    /\ BagCardinality(mutations) < MaxInFlight
        => /\ \A pid \in Pids, force \in ForceArgs : ENABLED KillProcess(pid, force)
           /\ \A force \in ForceArgs : ENABLED KillAllProcesses(force)
           /\ \A pid \in Pids : ENABLED PauseProcess(pid)
           /\ \A pid \in Pids : ENABLED ResumeProcess(pid)
    /\ called # NoCall => Entry(Cmd(called.op, called.pid), TRUE) \in InFlight

\* C15 witness: pauseProcess(1) has just been issued, and is in flight,
\* while a kill of the same process is still unresolved.
C15_Witness ==
    /\ called = Call("pause", 1, "undefined")
    /\ CountPid("pause", 1) = 1
    /\ CountPid("kill", 1) = 1

\* C16: invalidation is idempotent: two requests give the query state one
\* request gives, and a command success that requests an invalidation while
\* a fetch is already running leaves that one fetch running, marks the
\* query invalidated and changes nothing else of the query: the poll slot
\* is unchanged, and so are the push slot and the exposed view (which only
\* the clear of a kill-all, made next to the request, writes).
C16_InvalidationIdempotent ==
    /\ [](InvalidateQueries(InvalidateQueries(query)) = InvalidateQueries(query))
    /\ [][(Succeeded(Kinds)' /\ settled'.refetching)
            => /\ query' = [query EXCEPT !.isInvalidated = TRUE]
               /\ query'.fetchStatus = "fetching"
               /\ apiProcesses' = apiProcesses
               /\ settled'.cmd.kind # "killAll"
                    => (wsProcesses' = wsProcesses /\ processes' = processes)]_vars

\* C16 witness: a pause succeeded while a fetch of the query was already
\* running; the query is invalidated with one fetch running, and the view
\* is the poll result from before.
C16_Witness ==
    /\ Succeeded({"pause"})
    /\ settled.refetching
    /\ query.fetchStatus = "fetching"
    /\ query.isInvalidated
    /\ wsProcesses.tag # "value"
    /\ processes = lastPoll.val
    /\ processes # <<>>

\* C17: the clear of kill-all is never applied speculatively: issuing a
\* command, and any command outcome other than a kill-all success, leaves
\* the push slot and the exposed view as they were; the step in which a
\* kill-all succeeds is the one that sets the push slot to the empty
\* sequence.
C17_NoSpeculativeClear ==
    [][/\ ((called' # NoCall \/ settled' # NoCompletion) /\ ~Succeeded({"killAll"})')
            => (wsProcesses' = wsProcesses /\ processes' = processes)
       /\ Succeeded({"killAll"})' => wsProcesses' = Some(<<>>)]_vars

\* C17 witness: killAllProcesses has just been issued and is in flight; the
\* view still shows the pushed snapshot.
C17_Witness ==
    /\ called.op = "killAll"
    /\ Count("killAll") = 1
    /\ wsProcesses = lastPush
    /\ wsProcesses.tag = "value"
    /\ processes # <<>>

\* C18: killProcess, pauseProcess and resumeProcess never write the push
\* slot: issuing one, and its success or failure, leave wsProcesses and the
\* exposed view unchanged; and while the push slot holds a snapshot, the
\* result (or failure) of a fetch, the refetch they ask for included,
\* leaves the view unchanged too.
C18_SingleCommandsKeepPushSlot ==
    [][/\ (\/ called'.op \in Kinds \ {"killAll"}
           \/ settled'.cmd.kind \in Kinds \ {"killAll"})
            => (wsProcesses' = wsProcesses /\ processes' = processes)
       /\ (wsProcesses.tag = "value" /\ (PollApplied \/ PollFailed))
            => (wsProcesses' = wsProcesses /\ processes' = processes)]_vars

\* C18 witness: a kill has just succeeded after a push was applied; the view
\* is still the pushed snapshot, which differs from the poll slot.
C18_Witness ==
    /\ Succeeded({"kill"})
    /\ wsProcesses = lastPush
    /\ wsProcesses.tag = "value"
    /\ processes = lastPush.val
    /\ processes # <<>>
    /\ apiProcesses.tag = "value"
    /\ apiProcesses # wsProcesses

\* C19: a successful kill-all leaves the push slot holding the empty
\* sequence; from then on the exposed view is empty and stays so through
\* every step that is not a push message (poll results, timer, command
\* calls and outcomes), and a push message carrying a snapshot replaces it
\* with that snapshot whatever the snapshot is.
C19_EmptyUntilNextPush ==
    [][/\ Succeeded({"killAll"})' => wsProcesses' = Some(<<>>)
       /\ wsProcesses = Some(<<>>)
            => /\ processes = <<>>
               /\ (\A message \in Messages : ~HandleProcessUpdate(message))
                    => (wsProcesses' = wsProcesses /\ processes' = <<>>)
               /\ \A message \in Messages :
                    (WellFormed(message) /\ HandleProcessUpdate(message))
                        => processes' = message.processes.val]_vars

\* C19 witness: the push slot was emptied by a kill-all (the last pushed
\* snapshot was not empty), a poll applied after it lists processes, and
\* the view is empty.
C19_Witness ==
    /\ wsProcesses = Some(<<>>)
    /\ lastPush # Some(<<>>)
    /\ query.status = "success"
    /\ query.fetchStatus = "idle"
    /\ ~query.isInvalidated
    /\ apiProcesses.val # <<>>
    /\ processes = <<>>

\* C20: through the panel, pause is called only for a process shown as
\* running, resume only for one shown as paused, kill for a shown process
\* of whatever status (every row of the open panel offers it), and kill-all
\* only by confirming an open confirmation, with force = true; the
\* confirmation opens only on the open panel while the displayed
\* processCount is greater than 0.
C20_PanelIntents ==
    /\ [](isOpen /\ BagCardinality(mutations) < MaxInFlight
            => \A r \in Rows(panelProcesses) : ENABLED ClickKill(r.pid))
    /\ [][/\ called'.op = "pause"
                => \E r \in Rows(panelProcesses) :
                        r.pid = called'.pid /\ r.status = "running"
          /\ called'.op = "resume"
                => \E r \in Rows(panelProcesses) :
                        r.pid = called'.pid /\ r.status = "paused"
          /\ called'.op = "kill"
                => \E r \in Rows(panelProcesses) : r.pid = called'.pid
          /\ called'.op = "killAll"
                => (showKillAllConfirm /\ ~showKillAllConfirm' /\ called'.force = "true")
          /\ (~showKillAllConfirm /\ showKillAllConfirm')
                => (isOpen /\ panelProcessCount > 0)]_vars

\* C20 witness: the confirmation was opened while processes were shown, the
\* view emptied before it was confirmed, and the confirmed kill-all went
\* out with force = true.
C20_Witness ==
    /\ called = Call("killAll", NoPid, "true")
    /\ Count("killAll") = 1
    /\ ~showKillAllConfirm
    /\ isOpen
    /\ panelProcessCount = 0

===========================================================================
